---------------------------- MODULE Spec2Model ----------------------------
(***************************************************************************)
(* Model of the Skribbl speaker-identification core:                       *)
(*   src/diarize/voice_library.py  VoiceLibrary (profile store + matcher)  *)
(*   src/diarize/enroll.py         the enroll / delete commands            *)
(*   src/diarize/transcribe.py     identify_speakers, merge and rendering  *)
(*                                                                         *)
(* Speaker names are non-empty plain file stems, so that the stem of       *)
(* "<name>.json" is <name> again.  Similarities are compared exactly (as   *)
(* rationals under a square root), embeddings are non-zero integer vectors.*)
(***************************************************************************)
EXTENDS Integers, Sequences, FiniteSets, TLC

VARIABLES
    jsonFiles,      \* profiles_dir/<name>.json : metadata artifact or None
    npyFiles,       \* profiles_dir/<name>.npy  : embedding artifact or None
    profiles,       \* VoiceLibrary.profiles, an insertion-ordered dict
    modelLoaded,    \* VoiceLibrary._embedding_model is not None
    last,           \* the last operation: its arguments, outcome and pre-state
    hist,           \* history: here  = names this instance enrolled and has not deleted,
                    \*          ever  = names that were ever given an artifact,
                    \*          foreign = another process changed the directory
                    \*                    since this instance was constructed
    embedding,      \* identify_speaker: the embedding to identify
    threshold,      \* identify_speaker: the similarity threshold
    identified,     \* identify_speaker: what the last call returned
    diarize_result, \* transcribe.py: the diarized segments of the others track
    others_audio,   \* transcribe.py: the waveform of the others track
    resolved,       \* identify_speakers: its mapping and its embedding calls
    self_segments,  \* transcribe.py main: self_result["segments"]
    others_segments,\* transcribe.py main: others_result["segments"]
    all_segments,   \* transcribe.py main: the merged segments
    output          \* transcribe.py main: the lines printed to standard output

storeVars == <<jsonFiles, npyFiles, profiles, modelLoaded, last, hist>>

matchVars == <<embedding, threshold, identified>>

resolveVars == <<diarize_result, others_audio, resolved>>

mergeVars == <<self_segments, others_segments, all_segments, output>>

vars == <<storeVars, matchVars, resolveVars, mergeVars>>

\* Python's None where a record (an artifact, a profile) may stand.
None == [none |-> TRUE]

\* No value, where a string may stand.
NoStr == "-"

Names == {"Alice", "Bob"}

\* datetime.now().isoformat(): the timestamp is opaque to the program, which
\* stores it and never reads it; one value stands for all.
Times == {"now"}

\* Embedding vectors the embedding model yields for the enrollment samples.
VecA == <<1, 0>>

VecB == <<0, 1>>

\* The audio files of the file system: two that exist, one that does not.
AudioFiles == {"a.wav", "b.wav", "missing.wav"}

ExistingAudio == {"a.wav", "b.wav"}

\* model(str(audio_file)): the embedding model is a function of the clip.
EmbedFile(audio_file) == IF audio_file = "a.wav" THEN VecA ELSE VecB

Embeddings == {EmbedFile(f) : f \in ExistingAudio}

---------------------------------------------------------------------------
(* Persistence formats *)

\* np.save: the array is written with its shape and its data.
NpSave(array) == [shape |-> <<Len(array)>>, data |-> array]

\* np.load: the array is rebuilt from the stored shape and data.
NpLoad(artifact) == SubSeq(artifact.data, 1, artifact.shape[1])

\* SpeakerProfile.to_dict: the metadata, without the embedding.
to_dict(profile) ==
    [name |-> profile.name,
     enrollment_file |-> profile.enrollment_file,
     created_at |-> profile.created_at]

SpeakerProfile(name, array, enrollment_file, created_at) ==
    [name |-> name, embedding |-> array,
     enrollment_file |-> enrollment_file, created_at |-> created_at]

MetadataOf == [name : Names, enrollment_file : ExistingAudio, created_at : Times]

---------------------------------------------------------------------------
(* The insertion-ordered dict self.profiles: a sequence of <key, value>    *)
(* entries with distinct keys.                                             *)

DictKeys(d) == {d[i].key : i \in 1..Len(d)}

DictHas(d, k) == k \in DictKeys(d)

DictIndex(d, k) == CHOOSE i \in 1..Len(d) : d[i].key = k

DictGet(d, k) == IF DictHas(d, k) THEN d[DictIndex(d, k)].value ELSE None

\* d[k] = v : an existing key keeps its position, a new key goes last.
DictSet(d, k, v) ==
    IF DictHas(d, k)
    THEN [d EXCEPT ![DictIndex(d, k)] = [key |-> k, value |-> v]]
    ELSE Append(d, [key |-> k, value |-> v])

\* del d[k]
DictDel(d, k) ==
    LET i == DictIndex(d, k)
    IN  SubSeq(d, 1, i - 1) \o SubSeq(d, i + 1, Len(d))

\* list(d.keys())
list_speakers(d) == [i \in 1..Len(d) |-> d[i].key]

\* self.profiles.get(name)
get_profile(d, name) == DictGet(d, name)

\* The permutations of a finite set, as sequences: the orders in which
\* Path.glob may yield the directory's entries.
Perms(S) ==
    {s \in [1..Cardinality(S) -> S] : \A i, j \in 1..Cardinality(S) : s[i] = s[j] => i = j}

---------------------------------------------------------------------------
(* VoiceLibrary *)

\* speaker_exists: the metadata artifact alone decides.
speaker_exists(json, name) == json[name] # None

\* Mutant of SaveNpy: the embedding artifact is not written.
SaveNpy_NotWritten(npy, profile) == npy

\* _save_profile: the embedding artifact, then the metadata artifact.
SaveNpy(npy, profile) == [npy EXCEPT ![profile.name] = NpSave(profile.embedding)]

SaveJson(json, profile) == [json EXCEPT ![profile.name] = to_dict(profile)]

\* One pass of the loop of load_profiles over the glob result `order`.
RECURSIVE LoadLoop(_, _, _, _)
LoadLoop(json, npy, order, d) ==
    IF order = <<>> THEN d
    ELSE LET name == Head(order)
             metadata == json[name]
         IN  IF npy[name] = None
             THEN LoadLoop(json, npy, Tail(order), d)
             ELSE LoadLoop(json, npy, Tail(order),
                      DictSet(d, name,
                          SpeakerProfile(metadata.name, NpLoad(npy[name]),
                              metadata.enrollment_file, metadata.created_at)))

\* The names Path.glob("*.json") yields (their stems).
GlobJson(json) == {n \in Names : json[n] # None}

\* self.profiles.clear()
clear(d) == <<>>

\* Mutant of load_profiles: the cache is not cleared first.
load_profiles_NoClear(json, npy, order, d) == LoadLoop(json, npy, order, d)

\* load_profiles on the cache d, for one order of the glob: clear, then the loop.
load_profiles(json, npy, order, d) == LoadLoop(json, npy, order, clear(d))

\* The names with both artifacts persisted: the valid profiles on disk.
Complete(json, npy) == {n \in Names : json[n] # None /\ npy[n] # None}

\* The cache mirrors the directory: it holds exactly the valid profiles.
Mirrored(json, npy, d) == DictKeys(d) = Complete(json, npy)

\* The cache holds a name that is no longer a valid profile on disk.
Stale(json, npy, d) == DictKeys(d) \ Complete(json, npy) # {}

\* What the operation before was, as far as the next one's contract asks.
PrevOf(l) ==
    IF l.op = "enroll" /\ l.error = "none"
    THEN (IF l.mirrored THEN "enroll ok, mirrored" ELSE "enroll ok")
    ELSE "other"

\* The record of an operation: its arguments and its outcome, and what the
\* store was like when it began.
Outcome(op, name, audio, overwrite, response, returned, error, exit, calls) ==
    [op |-> op, name |-> name, audio |-> audio, overwrite |-> overwrite,
     response |-> response, returned |-> returned, error |-> error,
     exit |-> exit, embedCalls |-> calls,
     mirrored |-> Mirrored(jsonFiles, npyFiles, profiles),
     stale |-> Stale(jsonFiles, npyFiles, profiles),
     here |-> name \in hist.here,
     prev |-> PrevOf(last)]

\* No exit code: the operation was a library call, not a command.
NoExit == -1

\* Mutant of enroll_speaker: the already-enrolled check is missing.
enroll_speaker_NoExistsCheck(json, npy, d, loaded, name, audio_file, overwrite, embedOk, now) ==
    IF audio_file \notin ExistingAudio
    THEN [json |-> json, npy |-> npy, profiles |-> d, modelLoaded |-> loaded,
          error |-> "FileNotFoundError", result |-> None, calls |-> 0]
    ELSE IF ~embedOk
    THEN [json |-> json, npy |-> npy, profiles |-> d, modelLoaded |-> TRUE,
          error |-> "CollaboratorFailure", result |-> None, calls |-> 1]
    ELSE LET profile == SpeakerProfile(name, EmbedFile(audio_file), audio_file, now)
         IN  [json |-> SaveJson(json, profile), npy |-> SaveNpy(npy, profile),
              profiles |-> DictSet(d, name, profile), modelLoaded |-> TRUE,
              error |-> "none", result |-> profile, calls |-> 1]

\* The effect of enroll_speaker(name, audio_file, overwrite) on the store
\* <<json, npy, profiles, modelLoaded>>; embedOk: the embedding model
\* answers; now: datetime.now().
enroll_speaker(json, npy, d, loaded, name, audio_file, overwrite, embedOk, now) ==
    IF audio_file \notin ExistingAudio
    THEN [json |-> json, npy |-> npy, profiles |-> d, modelLoaded |-> loaded,
          error |-> "FileNotFoundError", result |-> None, calls |-> 0]
    ELSE IF speaker_exists(json, name) /\ ~overwrite
    THEN [json |-> json, npy |-> npy, profiles |-> d, modelLoaded |-> loaded,
          error |-> "ValueError", result |-> None, calls |-> 0]
    ELSE IF ~embedOk
    THEN [json |-> json, npy |-> npy, profiles |-> d, modelLoaded |-> TRUE,
          error |-> "CollaboratorFailure", result |-> None, calls |-> 1]
    ELSE LET profile == SpeakerProfile(name, EmbedFile(audio_file), audio_file, now)
         IN  [json |-> SaveJson(json, profile), npy |-> SaveNpy(npy, profile),
              profiles |-> DictSet(d, name, profile), modelLoaded |-> TRUE,
              error |-> "none", result |-> profile, calls |-> 1]

\* Mutant of delete_speaker: the metadata artifact is left behind.
delete_speaker_KeepsJson(json, npy, d, name) ==
    IF ~DictHas(d, name)
    THEN [json |-> json, npy |-> npy, profiles |-> d, result |-> FALSE]
    ELSE [json |-> json, npy |-> [npy EXCEPT ![name] = None],
          profiles |-> DictDel(d, name), result |-> TRUE]

\* Mutant of delete_speaker: the cache entry is left behind.
delete_speaker_KeepsCached(json, npy, d, name) ==
    IF ~DictHas(d, name)
    THEN [json |-> json, npy |-> npy, profiles |-> d, result |-> FALSE]
    ELSE [json |-> [json EXCEPT ![name] = None],
          npy |-> [npy EXCEPT ![name] = None],
          profiles |-> d, result |-> TRUE]

\* Mutant of delete_speaker: the artifacts are removed whether or not the
\* name is cached.
delete_speaker_Uncached(json, npy, d, name) ==
    [json |-> [json EXCEPT ![name] = None],
     npy |-> [npy EXCEPT ![name] = None],
     profiles |-> IF DictHas(d, name) THEN DictDel(d, name) ELSE d,
     result |-> TRUE]

\* The effect of delete_speaker(name).
delete_speaker(json, npy, d, name) ==
    IF ~DictHas(d, name)
    THEN [json |-> json, npy |-> npy, profiles |-> d, result |-> FALSE]
    ELSE [json |-> [json EXCEPT ![name] = None],
          npy |-> [npy EXCEPT ![name] = None],
          profiles |-> DictDel(d, name), result |-> TRUE]

\* str.lower() on the operator's answer to a prompt.
Responses == {"y", "Y", "n"}

lower(response) == IF response = "Y" THEN "y" ELSE response

\* History updates.
HistNew == [hist EXCEPT !.here = {}, !.foreign = FALSE]

HistEnrolled(h, name, ok) ==
    IF ok THEN [h EXCEPT !.here = @ \cup {name}, !.ever = @ \cup {name}] ELSE h

HistDeleted(h, name, ok) == IF ok THEN [h EXCEPT !.here = @ \ {name}] ELSE h

---------------------------------------------------------------------------
(* Actions of the library *)

\* VoiceLibrary(): a new instance over the same directory.
New ==
    /\ profiles' = <<>>
    /\ modelLoaded' = FALSE
    /\ hist' = HistNew
    /\ last' = Outcome("new", NoStr, NoStr, FALSE, NoStr, FALSE, "none", NoExit, 0)
    /\ UNCHANGED <<jsonFiles, npyFiles>>
    /\ UNCHANGED <<matchVars, resolveVars, mergeVars>>

Enroll ==
    \E name \in Names, audio_file \in AudioFiles, overwrite \in BOOLEAN,
       embedOk \in BOOLEAN, now \in Times :
        \E r \in {enroll_speaker(jsonFiles, npyFiles, profiles, modelLoaded,
                                name, audio_file, overwrite, embedOk, now)} :
            /\ jsonFiles' = r.json
            /\ npyFiles' = r.npy
            /\ profiles' = r.profiles
            /\ modelLoaded' = r.modelLoaded
            /\ hist' = HistEnrolled(hist, name, r.error = "none")
            /\ last' = Outcome("enroll", name, audio_file, overwrite, NoStr,
                               FALSE, r.error, NoExit, r.calls)
            /\ UNCHANGED <<matchVars, resolveVars, mergeVars>>

LoadProfiles ==
    \E order \in Perms(GlobJson(jsonFiles)) :
        /\ profiles' = load_profiles(jsonFiles, npyFiles, order, profiles)
        /\ last' = Outcome("load", NoStr, NoStr, FALSE, NoStr, FALSE, "none", NoExit, 0)
        /\ UNCHANGED <<jsonFiles, npyFiles, modelLoaded, hist>>
        /\ UNCHANGED <<matchVars, resolveVars, mergeVars>>

Delete ==
    \E name \in Names :
        \E r \in {delete_speaker(jsonFiles, npyFiles, profiles, name)} :
            /\ jsonFiles' = r.json
            /\ npyFiles' = r.npy
            /\ profiles' = r.profiles
            /\ hist' = HistDeleted(hist, name, r.result)
            /\ last' = Outcome("delete", name, NoStr, FALSE, NoStr,
                               r.result, "none", NoExit, 0)
            /\ UNCHANGED modelLoaded
            /\ UNCHANGED <<matchVars, resolveVars, mergeVars>>

---------------------------------------------------------------------------
(* The commands of enroll.py; main constructs the library first. *)

\* Mutant of cmd_enroll: a declined overwrite exits with 1.
cmd_enroll_CancelExitsOne(json, npy, name, audio_file, response, embedOk, now) ==
    LET asked == speaker_exists(json, name)
        untouched == [json |-> json, npy |-> npy, profiles |-> <<>>,
                      modelLoaded |-> FALSE, result |-> None, calls |-> 0]
    IN  IF audio_file \notin ExistingAudio
        THEN [exit |-> 1, error |-> "FileNotFoundError", overwrite |-> FALSE,
              asked |-> FALSE, lib |-> untouched]
        ELSE IF asked /\ lower(response) # "y"
        THEN [exit |-> 1, error |-> "cancelled", overwrite |-> FALSE,
              asked |-> TRUE, lib |-> untouched]
        ELSE LET r == enroll_speaker(json, npy, <<>>, FALSE, name, audio_file,
                                     asked, embedOk, now)
             IN  [exit |-> IF r.error = "none" THEN 0 ELSE 1, error |-> r.error,
                  overwrite |-> asked, asked |-> asked, lib |-> r]

\* cmd_enroll(library, name, audio_file), with the operator's answer to the
\* overwrite prompt (read only when the speaker exists).
cmd_enroll(json, npy, name, audio_file, response, embedOk, now) ==
    LET asked == speaker_exists(json, name)
        untouched == [json |-> json, npy |-> npy, profiles |-> <<>>,
                      modelLoaded |-> FALSE, result |-> None, calls |-> 0]
    IN  IF audio_file \notin ExistingAudio
        THEN [exit |-> 1, error |-> "FileNotFoundError", overwrite |-> FALSE,
              asked |-> FALSE, lib |-> untouched]
        ELSE IF asked /\ lower(response) # "y"
        THEN [exit |-> 0, error |-> "cancelled", overwrite |-> FALSE,
              asked |-> TRUE, lib |-> untouched]
        ELSE LET r == enroll_speaker(json, npy, <<>>, FALSE, name, audio_file,
                                     asked, embedOk, now)
             IN  [exit |-> IF r.error = "none" THEN 0 ELSE 1, error |-> r.error,
                  overwrite |-> asked, asked |-> asked, lib |-> r]

CmdEnroll ==
    \E name \in Names, audio_file \in AudioFiles, response \in Responses,
       embedOk \in BOOLEAN, now \in Times :
        \E c \in {cmd_enroll(jsonFiles, npyFiles, name, audio_file, response,
                            embedOk, now)} :
            /\ jsonFiles' = c.lib.json
            /\ npyFiles' = c.lib.npy
            /\ profiles' = c.lib.profiles
            /\ modelLoaded' = c.lib.modelLoaded
            /\ hist' = HistEnrolled(HistNew, name, c.error = "none")
            /\ last' = Outcome("cmd_enroll", name, audio_file, c.overwrite,
                               IF c.asked THEN response ELSE NoStr,
                               FALSE, c.error, c.exit, c.lib.calls)
            /\ UNCHANGED <<matchVars, resolveVars, mergeVars>>

\* cmd_delete(library, name): load, existence check, confirmation, delete.
cmd_delete(json, npy, order, name, response) ==
    LET d == load_profiles(json, npy, order, <<>>)
        kept == [json |-> json, npy |-> npy, profiles |-> d, result |-> FALSE]
    IN  IF ~speaker_exists(json, name)
        THEN [exit |-> 1, error |-> "not found", asked |-> FALSE, lib |-> kept]
        ELSE IF lower(response) # "y"
        THEN [exit |-> 0, error |-> "cancelled", asked |-> TRUE, lib |-> kept]
        ELSE LET r == delete_speaker(json, npy, d, name)
             IN  [exit |-> IF r.result THEN 0 ELSE 1,
                  error |-> IF r.result THEN "none" ELSE "delete failed",
                  asked |-> TRUE, lib |-> r]

CmdDelete ==
    \E name \in Names, response \in Responses,
       order \in Perms(GlobJson(jsonFiles)) :
        \E c \in {cmd_delete(jsonFiles, npyFiles, order, name, response)} :
            /\ jsonFiles' = c.lib.json
            /\ npyFiles' = c.lib.npy
            /\ profiles' = c.lib.profiles
            /\ modelLoaded' = FALSE
            /\ hist' = HistDeleted(HistNew, name, c.lib.result)
            /\ last' = Outcome("cmd_delete", name, NoStr, FALSE,
                               IF c.asked THEN response ELSE NoStr,
                               c.lib.result, c.error, c.exit, 0)
            /\ UNCHANGED <<matchVars, resolveVars, mergeVars>>

\* Another process runs the delete command on the same directory and the
\* operator confirms: its own library loads, finds the name and removes both
\* artifacts.  This instance's cache is not told.
OtherProcessDelete ==
    \E name \in Names, order \in Perms(GlobJson(jsonFiles)) :
        \E c \in {cmd_delete(jsonFiles, npyFiles, order, name, "y")} :
            /\ c.lib.result
            /\ jsonFiles' = c.lib.json
            /\ npyFiles' = c.lib.npy
            /\ hist' = [hist EXCEPT !.foreign = TRUE]
            /\ last' = Outcome("other_delete", name, NoStr, FALSE, "y",
                               TRUE, "none", NoExit, 0)
            /\ UNCHANGED <<profiles, modelLoaded>>
            /\ UNCHANGED <<matchVars, resolveVars, mergeVars>>

---------------------------------------------------------------------------
(* The store specification *)

\* The parts of the state an operation of another component leaves alone.
MatchIdle ==
    embedding = <<>> /\ threshold = None /\ identified = [name |-> NoStr, fresh |-> FALSE]

ResolveIdle == diarize_result = <<>> /\ others_audio = <<>> /\ resolved = None

MergeIdle ==
    /\ self_segments = <<>> /\ others_segments = <<>>
    /\ all_segments = <<>> /\ output = <<>>

NoLast ==
    [op |-> "init", name |-> NoStr, audio |-> NoStr, overwrite |-> FALSE,
     response |-> NoStr, returned |-> FALSE, error |-> "none",
     exit |-> NoExit, embedCalls |-> 0, mirrored |-> FALSE, stale |-> FALSE,
     here |-> FALSE, prev |-> "other"]

\* A directory as the program leaves it or finds it: any name may have its
\* metadata artifact, its embedding artifact, both or neither.
Init ==
    /\ jsonFiles \in [Names -> MetadataOf \cup {None}]
    /\ \A n \in Names : jsonFiles[n] # None => jsonFiles[n].name = n
    /\ npyFiles \in [Names -> {NpSave(e) : e \in Embeddings} \cup {None}]
    /\ profiles = <<>>
    /\ modelLoaded = FALSE
    /\ hist = [here |-> {},
               ever |-> {n \in Names : jsonFiles[n] # None \/ npyFiles[n] # None},
               foreign |-> FALSE]
    /\ last = NoLast
    /\ MatchIdle /\ ResolveIdle /\ MergeIdle

Next ==
    \/ New
    \/ Enroll
    \/ LoadProfiles
    \/ Delete
    \/ CmdEnroll
    \/ CmdDelete
    \/ OtherProcessDelete

Spec == Init /\ [][Next]_vars

---------------------------------------------------------------------------
(* identify_speaker: the matcher *)

\* Bound on the coordinates of the embedding vectors the matcher is given.
MaxCoord == 3

\* The non-zero vectors (the cosine of a zero vector is undefined).
Vectors == {v \in (0..MaxCoord) \X (0..MaxCoord) : v # <<0, 0>>}

\* np.dot(a, b)
RECURSIVE Dot(_, _)
Dot(a, b) == IF a = <<>> THEN 0 ELSE Head(a) * Head(b) + Dot(Tail(a), Tail(b))

\* np.linalg.norm(a), squared
Norm2(a) == Dot(a, a)

\* A real number num / sqrt(den2), den2 > 0; den2 = 0 stands for nan.
Real(num, den2) == [num |-> num, den2 |-> den2]

\* The default threshold 0.7 of identify_speaker, and the lowest of its
\* documented range, 0.0 (which orthogonal vectors meet exactly).
Threshold07 == Real(7, 100)

Threshold00 == Real(0, 1)

Thresholds == {Threshold07, Threshold00}

\* _cosine_similarity(a, b) = dot(a, b) / (norm(a) * norm(b))
cosine_similarity(a, b) == Real(Dot(a, b), Norm2(a) * Norm2(b))

\* x > y on these reals (false when either is nan):
\* l / sqrt(m) > r / sqrt(n)  iff  l * sqrt(n) > r * sqrt(m).
Gt(x, y) ==
    /\ x.den2 # 0 /\ y.den2 # 0
    /\ LET l2n == x.num * x.num * y.den2
           r2m == y.num * y.num * x.den2
       IN  IF x.num >= 0
           THEN (IF y.num >= 0 THEN l2n > r2m ELSE TRUE)
           ELSE (IF y.num >= 0 THEN FALSE ELSE l2n < r2m)

\* Mutant of IdentifyLoop: a similarity equal to the best score replaces it.
RECURSIVE IdentifyLoop_OrEqual(_, _, _, _, _)
IdentifyLoop_OrEqual(d, i, emb, best_match, best_score) ==
    IF i > Len(d) THEN best_match
    ELSE LET similarity == cosine_similarity(emb, d[i].value.embedding)
         IN  IF ~Gt(best_score, similarity)
             THEN IdentifyLoop_OrEqual(d, i + 1, emb, d[i].key, similarity)
             ELSE IdentifyLoop_OrEqual(d, i + 1, emb, best_match, best_score)

\* The loop of identify_speaker over self.profiles.items(), from entry i on.
RECURSIVE IdentifyLoop(_, _, _, _, _)
IdentifyLoop(d, i, emb, best_match, best_score) ==
    IF i > Len(d) THEN best_match
    ELSE LET similarity == cosine_similarity(emb, d[i].value.embedding)
         IN  IF Gt(similarity, best_score)
             THEN IdentifyLoop(d, i + 1, emb, d[i].key, similarity)
             ELSE IdentifyLoop(d, i + 1, emb, best_match, best_score)

\* identify_speaker(embedding, threshold); NoStr is None.
identify_speaker(d, emb, thr) ==
    IF d = <<>> THEN NoStr ELSE IdentifyLoop(d, 1, emb, NoStr, thr)

\* identify_speaker on the library's cache; fresh: the cache was loaded by
\* the operation just before.
Identify ==
    /\ identified' = [name |-> identify_speaker(profiles, embedding, threshold),
                      fresh |-> last.op = "load"]
    /\ last' = Outcome("identify", NoStr, NoStr, FALSE, NoStr, FALSE, "none", NoExit, 0)
    /\ UNCHANGED <<jsonFiles, npyFiles, profiles, modelLoaded, hist>>
    /\ UNCHANGED <<embedding, threshold, resolveVars, mergeVars>>

\* A library of valid profiles with any embeddings, a query and a threshold.
InitMatch ==
    /\ \E lib \in [Names -> Vectors \cup {<<>>}] :
          /\ jsonFiles = [n \in Names |->
                 IF lib[n] = <<>> THEN None
                 ELSE [name |-> n, enrollment_file |-> "a.wav", created_at |-> "now"]]
          /\ npyFiles = [n \in Names |->
                 IF lib[n] = <<>> THEN None ELSE NpSave(lib[n])]
    /\ profiles = <<>>
    /\ modelLoaded = FALSE
    /\ hist = [here |-> {}, ever |-> GlobJson(jsonFiles), foreign |-> FALSE]
    /\ last = NoLast
    /\ embedding \in Vectors
    /\ threshold \in Thresholds
    /\ identified = [name |-> NoStr, fresh |-> FALSE]
    /\ ResolveIdle /\ MergeIdle

NextMatch == LoadProfiles \/ Identify

SpecMatch == InitMatch /\ [][NextMatch]_vars

\* The similarity of the query to the cached profile k.
Sim(k) == cosine_similarity(embedding, DictGet(profiles, k).embedding)

C5_WitnessMax ==
    /\ last.op = "identify" /\ Len(profiles) = 2
    /\ identified.name = profiles[2].key
    /\ Gt(Sim(profiles[1].key), threshold)

\* C6, as stated: the iteration order is deterministic, so that two runs of
\* loadAll followed by match on the same library and query return the same
\* name.
C6_SameNameEveryRun ==
    [][(last.op = "load" /\ last'.op = "identify" /\ identified.fresh)
        => identified'.name = identified.name]_vars

\* C6, the part that holds: of the profiles tied for the maximum, match
\* returns the first in the cache's iteration order.
C6_FirstOfTiedWins ==
    (last.op = "identify" /\ identified.name # NoStr) =>
        \A i \in 1..Len(profiles) :
            i < DictIndex(profiles, identified.name)
                => Gt(Sim(identified.name), Sim(profiles[i].key))

---------------------------------------------------------------------------
(* identify_speakers: the resolver of transcribe.py *)

\* Bound on the number of diarized segments.
MaxDiar == 2

\* int(segment.start * 16000): the sample rate of the waveform.
SampleRate == 16000

Labels == {"SPEAKER_00", "SPEAKER_01"}

\* The waveform, one entry per second of audio: the voice heard in it
\* (1: the voice of VecA, 2: the voice of VecB).
Audios == {<<1>>, <<1, 2>>}

\* Segment bounds in seconds; the audio is one or two seconds long.
SegTimes == 0..2

DiarSegments == {g \in [start : SegTimes, end : SegTimes, label : Labels] : g.start < g.end}

\* All sequences over S of length at most n.
RECURSIVE SeqsUpTo(_, _)
SeqsUpTo(S, n) ==
    IF n = 0 THEN {<<>>}
    ELSE LET shorter == SeqsUpTo(S, n - 1)
         IN  shorter \cup {Append(q, x) : q \in {r \in shorter : Len(r) = n - 1}, x \in S}

Min(a, b) == IF a < b THEN a ELSE b

\* others_audio[start_sample:end_sample] for non-negative bounds: Python
\* clips both to the length; an empty or inverted range yields no sample.
\* The result is the range of samples kept.
PySlice(n, start_sample, end_sample) ==
    LET lo == Min(start_sample, n)
        hi == Min(end_sample, n)
    IN  [lo |-> lo, hi |-> IF hi < lo THEN lo ELSE hi]

\* The seconds of audio a sample range covers.
Clip(audio, range) ==
    SubSeq(audio, (range.lo \div SampleRate) + 1, range.hi \div SampleRate)

\* embedding_model(audio_dict): a function of the clip; here the time each
\* voice is heard in it.
Embed(clip) ==
    <<Cardinality({i \in 1..Len(clip) : clip[i] = 1}),
      Cardinality({i \in 1..Len(clip) : clip[i] = 2})>>

\* Mutant of EmbedLoop: every segment is embedded, and its embedding replaces
\* the one kept for its label.
RECURSIVE EmbedLoop_EverySegment(_, _, _, _, _, _)
EmbedLoop_EverySegment(diar, audio, i, speaker_embeddings, calls, emptyRaises) ==
    IF i > Len(diar)
    THEN [embs |-> speaker_embeddings, calls |-> calls, error |-> "none"]
    ELSE LET range == PySlice(Len(audio) * SampleRate, diar[i].start * SampleRate,
                              diar[i].end * SampleRate)
             segment_audio == Clip(audio, range)
             call == [label |-> diar[i].label, segment |-> i, range |-> range]
         IN  IF segment_audio = <<>> /\ emptyRaises
             THEN [embs |-> speaker_embeddings, calls |-> Append(calls, call),
                   error |-> "CollaboratorFailure"]
             ELSE EmbedLoop_EverySegment(diar, audio, i + 1,
                      DictSet(speaker_embeddings, diar[i].label, Embed(segment_audio)),
                      Append(calls, call), emptyRaises)

\* The first loop of identify_speakers, from segment i on: one embedding per
\* label, from the first segment carrying it.  emptyRaises: the embedding
\* model raises on a clip without samples (otherwise it answers).
RECURSIVE EmbedLoop(_, _, _, _, _, _)
EmbedLoop(diar, audio, i, speaker_embeddings, calls, emptyRaises) ==
    IF i > Len(diar)
    THEN [embs |-> speaker_embeddings, calls |-> calls, error |-> "none"]
    ELSE IF DictHas(speaker_embeddings, diar[i].label)
    THEN EmbedLoop(diar, audio, i + 1, speaker_embeddings, calls, emptyRaises)
    ELSE LET start_sample == diar[i].start * SampleRate
             end_sample == diar[i].end * SampleRate
             range == PySlice(Len(audio) * SampleRate, start_sample, end_sample)
             segment_audio == Clip(audio, range)
             call == [label |-> diar[i].label, segment |-> i, range |-> range]
         IN  IF segment_audio = <<>> /\ emptyRaises
             THEN [embs |-> speaker_embeddings, calls |-> Append(calls, call),
                   error |-> "CollaboratorFailure"]
             ELSE EmbedLoop(diar, audio, i + 1,
                      DictSet(speaker_embeddings, diar[i].label, Embed(segment_audio)),
                      Append(calls, call), emptyRaises)

\* The second loop of identify_speakers: match each label's embedding.
RECURSIVE MatchLoop(_, _, _, _)
MatchLoop(speaker_embeddings, i, d, speaker_mapping) ==
    IF i > Len(speaker_embeddings) THEN speaker_mapping
    ELSE LET identified_name ==
                 identify_speaker(d, speaker_embeddings[i].value, Threshold07)
         IN  MatchLoop(speaker_embeddings, i + 1, d,
                 IF identified_name # NoStr
                 THEN DictSet(speaker_mapping, speaker_embeddings[i].key, identified_name)
                 ELSE speaker_mapping)

\* Mutant of identify_speakers: no early return for an empty library.
identify_speakers_NoEarlyReturn(diar, audio, d, emptyRaises) ==
    LET e == EmbedLoop(diar, audio, 1, <<>>, <<>>, emptyRaises)
    IN  [mapping |-> IF e.error = "none" THEN MatchLoop(e.embs, 1, d, <<>>) ELSE <<>>,
         embs |-> e.embs, calls |-> e.calls, inference |-> TRUE, error |-> e.error]

\* identify_speakers(diarize_result, others_audio, voice_library): the
\* mapping, the embeddings kept, the calls of the embedding model, whether
\* the Inference was constructed, and the error raised if any.
identify_speakers(diar, audio, d, emptyRaises) ==
    IF d = <<>>
    THEN [mapping |-> <<>>, embs |-> <<>>, calls |-> <<>>, inference |-> FALSE,
          error |-> "none"]
    ELSE LET e == EmbedLoop(diar, audio, 1, <<>>, <<>>, emptyRaises)
         IN  [mapping |-> IF e.error = "none" THEN MatchLoop(e.embs, 1, d, <<>>) ELSE <<>>,
              embs |-> e.embs, calls |-> e.calls, inference |-> TRUE,
              error |-> e.error]

\* Lines 170-176 of main: a new library, load_profiles, and identify_speakers
\* only if some profile was loaded.
resolve_in_main(diar, audio, d, emptyRaises) ==
    IF d # <<>>
    THEN identify_speakers(diar, audio, d, emptyRaises)
    ELSE [mapping |-> <<>>, embs |-> <<>>, calls |-> <<>>, inference |-> FALSE,
          error |-> "none"]

\* identify_speakers called with the library as it is.
IdentifySpeakers ==
    \E emptyRaises \in BOOLEAN :
        /\ resolved' = identify_speakers(diarize_result, others_audio, profiles,
                                         emptyRaises)
        /\ last' = Outcome("identify_speakers", NoStr, NoStr, FALSE, NoStr, FALSE,
                           resolved'.error, NoExit, Len(resolved'.calls))
        /\ UNCHANGED <<jsonFiles, npyFiles, profiles, modelLoaded, hist>>
        /\ UNCHANGED <<diarize_result, others_audio, matchVars, mergeVars>>

\* The speaker identification of main.
TranscribeResolve ==
    \E emptyRaises \in BOOLEAN, order \in Perms(GlobJson(jsonFiles)) :
        /\ profiles' = load_profiles(jsonFiles, npyFiles, order, <<>>)
        /\ modelLoaded' = FALSE
        /\ hist' = HistNew
        /\ resolved' = resolve_in_main(diarize_result, others_audio, profiles',
                                       emptyRaises)
        /\ last' = Outcome("transcribe", NoStr, NoStr, FALSE, NoStr, FALSE,
                           resolved'.error, NoExit, Len(resolved'.calls))
        /\ UNCHANGED <<jsonFiles, npyFiles>>
        /\ UNCHANGED <<diarize_result, others_audio, matchVars, mergeVars>>

\* Any directory of artifacts, any diarization of any of the waveforms.
InitResolve ==
    /\ jsonFiles \in [Names -> {[name |-> n, enrollment_file |-> "a.wav",
                                 created_at |-> "now"] : n \in Names} \cup {None}]
    /\ \A n \in Names : jsonFiles[n] # None => jsonFiles[n].name = n
    /\ npyFiles \in [Names -> {NpSave(e) : e \in Embeddings} \cup {None}]
    /\ \A n \in Names : npyFiles[n] # None => jsonFiles[n] # None
    /\ profiles = <<>>
    /\ modelLoaded = FALSE
    /\ hist = [here |-> {}, ever |-> GlobJson(jsonFiles), foreign |-> FALSE]
    /\ last = NoLast
    /\ diarize_result \in SeqsUpTo(DiarSegments, MaxDiar)
    /\ others_audio \in Audios
    /\ resolved = None
    /\ MatchIdle /\ MergeIdle

NextResolve == LoadProfiles \/ IdentifySpeakers \/ TranscribeResolve

SpecResolve == InitResolve /\ [][NextResolve]_vars

\* C7: resolve with a library that has no enrolled speakers returns the
\* empty mapping for every list of diarized segments, calls the embedding
\* collaborator zero times and does not construct the embedding model.
C7_EmptyLibrary ==
    (last.op \in {"identify_speakers", "transcribe"} /\ profiles = <<>>) =>
        /\ resolved.mapping = <<>>
        /\ resolved.calls = <<>>
        /\ ~resolved.inference
        /\ resolved.error = "none"

\* identify_speakers was called with an empty library and diarized segments.
C7_Witness ==
    /\ last.op = "identify_speakers" /\ profiles = <<>>
    /\ Len(diarize_result) = MaxDiar
    /\ resolved.mapping = <<>> /\ resolved.calls = <<>>

\* identify_speakers ran with a library that holds profiles.
Resolved == last.op \in {"identify_speakers", "transcribe"} /\ profiles # <<>>

\* The first segment of the diarization carrying the label.
FirstWith(diar, label) ==
    CHOOSE i \in 1..Len(diar) :
        diar[i].label = label /\ \A j \in 1..(i - 1) : diar[j].label # label

\* The samples of the waveform that segment i covers.
SegmentRange(diar, audio, i) ==
    PySlice(Len(audio) * SampleRate, diar[i].start * SampleRate, diar[i].end * SampleRate)

\* C11: with a non-empty library, resolve calls the embedding collaborator at
\* most once per distinct label, each call is for the first segment carrying
\* its label, and the embedding recorded for a label is the one computed from
\* that first segment: a later segment of the label neither triggers another
\* call nor replaces the embedding.
C11_OncePerLabel ==
    Resolved =>
        /\ \A j, k \in 1..Len(resolved.calls) :
               resolved.calls[j].label = resolved.calls[k].label => j = k
        /\ \A k \in 1..Len(resolved.calls) :
               /\ \E i \in 1..Len(diarize_result) :
                      diarize_result[i].label = resolved.calls[k].label
               /\ resolved.calls[k].segment =
                      FirstWith(diarize_result, resolved.calls[k].label)
        /\ \A k \in 1..Len(resolved.embs) :
               /\ \E j \in 1..Len(resolved.calls) :
                      resolved.calls[j].label = resolved.embs[k].key
               /\ resolved.embs[k].value =
                      Embed(Clip(others_audio,
                                 SegmentRange(diarize_result, others_audio,
                                     FirstWith(diarize_result, resolved.embs[k].key))))

\* Two segments of one label with different voices in them, a library with
\* profiles: one call, and the embedding of the first segment is kept.
C11_Witness ==
    /\ Resolved /\ last.op = "identify_speakers"
    /\ Len(diarize_result) = 2
    /\ diarize_result[1].label = diarize_result[2].label
    /\ Embed(Clip(others_audio, SegmentRange(diarize_result, others_audio, 1)))
           # Embed(Clip(others_audio, SegmentRange(diarize_result, others_audio, 2)))
    /\ Clip(others_audio, SegmentRange(diarize_result, others_audio, 2)) # <<>>
    /\ Len(resolved.calls) = 1
    /\ Len(resolved.embs) = 1
    /\ resolved.embs[1].value =
           Embed(Clip(others_audio, SegmentRange(diarize_result, others_audio, 1)))

\* C12 as the specification states it: a first-seen segment whose sample
\* range is empty after clipping is skipped, the embedding collaborator is not
\* called for it, and a label with no segment of a valid range has no entry
\* in the mapping.
C12_EmptyRangeSkipped ==
    Resolved =>
        /\ \A k \in 1..Len(resolved.calls) :
               resolved.calls[k].range.lo < resolved.calls[k].range.hi
        /\ \A l \in Labels :
               (\A i \in 1..Len(diarize_result) :
                    diarize_result[i].label = l =>
                        LET r == SegmentRange(diarize_result, others_audio, i)
                        IN  r.lo >= r.hi)
               => ~DictHas(resolved.mapping, l)

---------------------------------------------------------------------------
(* main of transcribe.py: merging and rendering the two transcripts *)

\* Bound on the number of segments of the two tracks together.
MaxSegs == 3

\* Segment starts, in tenths of a second: 0.5 s and 1.0 s.
Starts == {5, 10}

\* Segment texts, as sequences of characters: empty, whitespace only, and a
\* word with whitespace around it.
Texts == {<<>>, <<" ", "\t">>, <<" ", "h", "i", "\n">>}

Whitespace == {" ", "\t", "\n", "\r"}

\* A segment of a track, as whisperx yields it: with or without a "text"
\* key.  id = <<track, position in the track's list>> tells segments apart.
TrackSegments(track, speaker) ==
    {[start |-> st, speaker |-> speaker, text |-> tx, track |-> track] :
        st \in Starts, tx \in Texts}
    \cup {[start |-> st, speaker |-> speaker, track |-> track] : st \in Starts}

\* seg.get("text", "")
GetText(seg) == IF "text" \in DOMAIN seg THEN seg.text ELSE <<>>

\* seg.get("speaker", "Unknown")
GetSpeaker(seg) == IF "speaker" \in DOMAIN seg THEN seg.speaker ELSE "Unknown"

\* str.lstrip, str.rstrip
RECURSIVE lstrip(_)
lstrip(text) ==
    IF text # <<>> /\ Head(text) \in Whitespace THEN lstrip(Tail(text)) ELSE text

RECURSIVE rstrip(_)
rstrip(text) ==
    IF text # <<>> /\ text[Len(text)] \in Whitespace
    THEN rstrip(SubSeq(text, 1, Len(text) - 1)) ELSE text

\* Mutant of strip: the text is taken as it is.
strip_Nothing(text) == text

\* str.strip
strip(text) == rstrip(lstrip(text))

\* format_timestamp(seconds), the start being given in tenths of a second:
\* int() truncates, divmod splits.
format_timestamp(tenths) ==
    LET seconds == tenths \div 10
        m0 == seconds \div 60
        sec == seconds % 60
    IN  [h |-> m0 \div 60, m |-> m0 % 60, s |-> sec]

\* Mutant of InsertSorted: an element goes before those of equal start.
RECURSIVE InsertSorted_BeforeEquals(_, _)
InsertSorted_BeforeEquals(sorted, seg) ==
    IF sorted = <<>> THEN <<seg>>
    ELSE IF sorted[Len(sorted)].start < seg.start THEN Append(sorted, seg)
    ELSE Append(InsertSorted_BeforeEquals(SubSeq(sorted, 1, Len(sorted) - 1), seg),
                sorted[Len(sorted)])

\* list.sort(key=start) is stable: an element goes after every element
\* already placed whose start is not greater.
RECURSIVE InsertSorted(_, _)
InsertSorted(sorted, seg) ==
    IF sorted = <<>> THEN <<seg>>
    ELSE IF sorted[Len(sorted)].start <= seg.start THEN Append(sorted, seg)
    ELSE Append(InsertSorted(SubSeq(sorted, 1, Len(sorted) - 1), seg),
                sorted[Len(sorted)])

RECURSIVE SortByStart(_, _)
SortByStart(segs, sorted) ==
    IF segs = <<>> THEN sorted
    ELSE SortByStart(Tail(segs), InsertSorted(sorted, Head(segs)))

\* Lines 186-187: concatenate, then sort by start.
merge(selfs, others) == SortByStart(selfs \o others, <<>>)

\* Lines 190-195: one line per segment whose stripped text is not empty.
RECURSIVE render(_)
render(segs) ==
    IF segs = <<>> THEN <<>>
    ELSE LET seg == Head(segs)
             ts == format_timestamp(seg.start)
             speaker == GetSpeaker(seg)
             text == strip(GetText(seg))
         IN  IF text # <<>>
             THEN <<[ts |-> ts, speaker |-> speaker, text |-> text, of |-> seg.id]>>
                      \o render(Tail(segs))
             ELSE render(Tail(segs))

\* The segment lists with each segment's id set.
WithIds(segs) == [i \in 1..Len(segs) |-> segs[i] @@ [id |-> <<segs[i].track, i>>]]

\* Merge and print the two transcripts.
MergeAndRender ==
    /\ last.op = "init"
    /\ all_segments' = merge(self_segments, others_segments)
    /\ output' = render(all_segments')
    /\ last' = [NoLast EXCEPT !.op = "merge"]
    /\ UNCHANGED <<jsonFiles, npyFiles, profiles, modelLoaded, hist>>
    /\ UNCHANGED <<self_segments, others_segments, matchVars, resolveVars>>

\* Any two transcripts of at most MaxSegs segments together.
InitMerge ==
    /\ jsonFiles = [n \in Names |-> None]
    /\ npyFiles = [n \in Names |-> None]
    /\ profiles = <<>>
    /\ modelLoaded = FALSE
    /\ hist = [here |-> {}, ever |-> {}, foreign |-> FALSE]
    /\ last = NoLast
    /\ \E selfs \in SeqsUpTo(TrackSegments("self", "Me"), MaxSegs) :
          \E others \in SeqsUpTo(TrackSegments("others", "SPEAKER_00"),
                                 MaxSegs - Len(selfs)) :
              /\ self_segments = WithIds(selfs)
              /\ others_segments = WithIds(others)
    /\ all_segments = <<>>
    /\ output = <<>>
    /\ MatchIdle /\ ResolveIdle

NextMerge == MergeAndRender

SpecMerge == InitMerge /\ [][NextMerge]_vars

\* The set of a sequence's elements.
Range(q) == {q[i] : i \in 1..Len(q)}

\* C8: merge returns a permutation of the concatenation of the two tracks,
\* sorted non-decreasing by start; of two segments with the same start a
\* self-track segment comes before an others-track segment, and segments of
\* one track keep their input order.
C8_Merge ==
    last.op = "merge" =>
        /\ Len(all_segments) = Len(self_segments) + Len(others_segments)
        /\ Range(all_segments) = Range(self_segments) \cup Range(others_segments)
        /\ \A i, j \in 1..Len(all_segments) :
              i < j =>
                  /\ all_segments[i].start <= all_segments[j].start
                  /\ all_segments[i].start = all_segments[j].start =>
                        /\ ~(all_segments[i].track = "others"
                                /\ all_segments[j].track = "self")
                        /\ all_segments[i].track = all_segments[j].track =>
                              all_segments[i].id[2] < all_segments[j].id[2]

\* A merge of a self-track segment and two others-track segments that all
\* start together, the others track holding a later segment first.
C8_Witness ==
    /\ last.op = "merge" /\ Len(self_segments) = 1 /\ Len(others_segments) = 2
    /\ \A i \in 1..3 : all_segments[i].start = 10
    /\ all_segments[1].track = "self"

\* The text has a character that is not whitespace.
Visible(seg) == \E i \in 1..Len(GetText(seg)) : GetText(seg)[i] \notin Whitespace

\* C10: rendering emits exactly one line per segment whose text is not empty
\* after trimming, in merged order, and none for a segment whose text is
\* empty or whitespace only.
C10_Render ==
    last.op = "merge" =>
        LET shown == SelectSeq(all_segments, Visible)
        IN  /\ Len(output) = Len(shown)
            /\ \A k \in 1..Len(output) :
                  /\ output[k].of = shown[k].id
                  /\ output[k].text # <<>>
                  /\ output[k].text[1] \notin Whitespace
                  /\ output[k].text[Len(output[k].text)] \notin Whitespace

\* A rendering of three segments, one with whitespace-only text, one without
\* text and one with a word: one line.
C10_Witness ==
    /\ last.op = "merge" /\ Len(all_segments) = 3
    /\ \E i \in 1..3 : GetText(all_segments[i]) = <<" ", "\t">>
    /\ \E i \in 1..3 : "text" \notin DOMAIN all_segments[i]
    /\ Len(output) = 1

---------------------------------------------------------------------------
(* Properties of the store (checked under Spec) *)

Store == <<jsonFiles, npyFiles, profiles>>

\* Two caches hold the same names with the same embedding for each.
SameProfiles(d, e) ==
    /\ DictKeys(d) = DictKeys(e)
    /\ \A k \in DictKeys(d) : DictGet(d, k).embedding = DictGet(e, k).embedding

C2_RoundTripAnyStore ==
    [][(last.op = "enroll" /\ last.error = "none" /\ last'.op = "load")
        => SameProfiles(profiles, profiles')]_vars

\* C2, amended: when the cache held exactly the valid persisted profiles
\* before the enroll, loadAll right after a successful enroll yields the
\* name set and the embeddings held right after the enroll.
C2_RoundTrip ==
    [][(last.op = "enroll" /\ last.error = "none" /\ last.mirrored
            /\ last'.op = "load")
        => SameProfiles(profiles, profiles')]_vars

\* loadAll ran right after a successful enroll on a mirrored store and the
\* cache holds two profiles, the enrolled one among them.
C2_Witness ==
    /\ last.op = "load" /\ last.prev = "enroll ok, mirrored"
    /\ Len(profiles) = 2

\* C3: delete(name) after a successful enroll(name) in this instance (no
\* other writer) returns true and leaves no metadata artifact, no embedding
\* artifact and no cache entry of name, so exists(name) is false; delete of
\* a name that was never enrolled returns false and changes nothing.
C3_Delete ==
    [][/\ (last'.op = "delete" /\ last'.name \in hist.here /\ ~hist.foreign)
            => (/\ last'.returned
                /\ ~speaker_exists(jsonFiles', last'.name)
                /\ jsonFiles'[last'.name] = None
                /\ npyFiles'[last'.name] = None
                /\ ~DictHas(profiles', last'.name))
       /\ (last'.op = "delete" /\ last'.name \notin hist.ever)
            => (~last'.returned /\ UNCHANGED Store)]_vars

\* A delete of a name this instance had enrolled returned true.
C3_Witness ==
    /\ last.op = "delete" /\ last.here /\ ~hist.foreign
    /\ last.returned
    /\ jsonFiles[last.name] = None /\ npyFiles[last.name] = None

\* C4: after loadAll the cache holds exactly the names with both artifacts
\* persisted: what was cached and is no longer persisted is gone, and a name
\* with a metadata artifact and no embedding artifact is skipped while the
\* others are loaded.
C4_LoadAll ==
    last.op = "load" =>
        /\ DictKeys(profiles) = Complete(jsonFiles, npyFiles)
        /\ \A n \in DictKeys(profiles) :
              DictGet(profiles, n).embedding = NpLoad(npyFiles[n])

\* A loadAll skipped a name that has only its metadata artifact and loaded
\* another.
C4_Witness ==
    /\ last.op = "load"
    /\ \E n \in Names : jsonFiles[n] # None /\ npyFiles[n] = None
    /\ profiles # <<>>

\* A loadAll dropped a cached name whose artifacts another process removed.
C4_WitnessStale == last.op = "load" /\ last.stale

\* C9, as stated: the enroll command exits with 0 only when the profile was
\* enrolled, and with 1 when the audio file is missing, when the operator
\* does not confirm the overwrite, and when the library raises an error.
C9_ExitZeroOnlyOnSuccess ==
    last.op = "cmd_enroll" =>
        /\ last.exit \in {0, 1}
        /\ last.exit = 0 <=> last.error = "none"

\* C9, amended: the enroll command exits with 0 when the profile was
\* enrolled and when the operator declines the overwrite of an enrolled name
\* (nothing is enrolled then); it exits with 1 when the audio file is
\* missing and when the library raises an error.
C9_ExitCodes ==
    last.op = "cmd_enroll" =>
        /\ last.exit \in {0, 1}
        /\ last.exit = 0 <=> last.error \in {"none", "cancelled"}
        /\ last.audio \notin ExistingAudio => last.exit = 1
        /\ last.error = "CollaboratorFailure" => last.exit = 1
        /\ last.error = "cancelled" <=>
              (last.audio \in ExistingAudio /\ last.response \in {"n"})
        /\ last.error = "none" =>
              (last.name \in Complete(jsonFiles, npyFiles)
                  /\ DictHas(profiles, last.name))

\* The operator declined the overwrite and the command exited with 0.
C9_Witness ==
    /\ last.op = "cmd_enroll" /\ last.response = "n"
    /\ last.error = "cancelled" /\ last.exit = 0

\* C13: in one instance with no other writer, after any sequence of enroll,
\* delete and loadAll every cached name has both its metadata artifact and
\* its embedding artifact persisted, and get(name) present implies
\* exists(name).
C13_CachedIsPersisted ==
    ~hist.foreign =>
        /\ \A n \in DictKeys(profiles) :
               jsonFiles[n] # None /\ npyFiles[n] # None
        /\ \A n \in Names :
               get_profile(profiles, n) # None => speaker_exists(jsonFiles, n)

\* This instance enrolled a name and deleted it again, and its cache still
\* holds the other name with both artifacts persisted.
C13_Witness ==
    /\ ~hist.foreign
    /\ last.op = "delete" /\ last.here /\ last.returned
    /\ \E n \in DictKeys(profiles) :
           n # last.name /\ jsonFiles[n] # None /\ npyFiles[n] # None

\* The name has its metadata artifact and no embedding artifact.
Orphan(json, npy, n) == json[n] # None /\ npy[n] = None

\* What C14 says of every operation but enroll without overwrite, on a name
\* n that has only its metadata artifact: loadAll leaves exists(n) true and
\* get(n) absent; delete(n) returns false and removes nothing; the delete
\* command, once confirmed, exits with 1; and only an enroll with overwrite
\* ends the state.
OrphanKept(n) ==
    /\ last'.op = "load" =>
           (speaker_exists(jsonFiles', n) /\ get_profile(profiles', n) = None)
    /\ (last'.op = "delete" /\ last'.name = n) =>
           (~last'.returned /\ UNCHANGED Store)
    /\ (last'.op = "cmd_delete" /\ last'.name = n /\ lower(last'.response) = "y") =>
           (last'.exit = 1 /\ ~last'.returned
               /\ UNCHANGED <<jsonFiles, npyFiles>>)
    /\ ~Orphan(jsonFiles', npyFiles', n) =>
           (/\ last'.op \in {"enroll", "cmd_enroll"}
            /\ last'.name = n /\ last'.overwrite /\ last'.error = "none")

=============================================================================
